---------------------------- MODULE Spec2Model ----------------------------
(***************************************************************************)
(* Kolam feature extraction and recreation pipeline:                       *)
(*   image_rec.py        detect_dots, detect_contours, analyze_principles  *)
(*   kolam_recreator.py  recreate_kolam                                    *)
(*   flask_API_server.py the /analyze and /recreate request handlers       *)
(*                                                                         *)
(* Conventions.  Coordinates, areas and perimeters are integers (pixels).  *)
(* Python tuples are TLA+ sequences, so Python's t[0] is t[1] here.        *)
(* Python's None is the record None; a Python list l is List(l).           *)
(***************************************************************************)
EXTENDS Integers, Sequences, FiniteSets, TLC

VARIABLES
    keypoints,      \* analyze_principles: argument keypoints
    contours,       \* analyze_principles: argument contours
    image_shape,    \* analyze_principles: argument image_shape
    principles,     \* analyze_principles: what the call returned (Pending before)
    r_contours,     \* recreate_kolam: argument contours
    r_shape,        \* recreate_kolam: argument image_shape
    recreated,      \* recreate_kolam: what the call returned (Pending before)
    temp_file,      \* the content of temp_uploaded_image.png
    reqs            \* the requests being served, one handler thread each

vars == <<keypoints, contours, image_shape, principles,
          r_contours, r_shape, recreated, temp_file, reqs>>

analyzeVars == <<keypoints, contours, image_shape, principles>>
recreateVars == <<r_contours, r_shape, recreated>>
serverVars == <<temp_file, reqs>>

---------------------------------------------------------------------------
(* Python values *)

None == [tag |-> "None"]
List(l) == [tag |-> "list", items |-> l]
IsNone(v) == v.tag = "None"
Pending == [tag |-> "pending"]

\* Python truthiness of a list-or-None value: `not v`
Falsy(v) == IsNone(v) \/ Len(v.items) = 0

\* Python len() of a list value
PyLen(v) == Len(v.items)

Max(a, b) == IF a >= b THEN a ELSE b
Abs(a) == IF a >= 0 THEN a ELSE 0 - a

SetMax(S) == CHOOSE m \in S : \A v \in S : v <= m
SetMin(S) == CHOOSE m \in S : \A v \in S : m <= v

KeyPoint(x, y) == [pt |-> <<x, y>>]

---------------------------------------------------------------------------
(* image_rec.analyze_principles *)

\* DBSCAN(eps=10, ...)
Eps == 10

\* symmetry tolerance max(2, len(keypoints) * 0.1), with 0.1 as TolNum / TolDen
TolMin == 2
TolNum == 1
TolDen == 10

\* coords = np.array([kp.pt for kp in keypoints])
Coords(kps) == [i \in 1..Len(kps) |-> kps[i].pt]

\* coords[:, 0] and coords[:, 1] as the collections of values clustered
ColumnX(coords) == {coords[i][1] : i \in 1..Len(coords)}
ColumnY(coords) == {coords[i][2] : i \in 1..Len(coords)}

\* A wrong clustering radius (twice the radius).
ClusterCountWide(values) ==
    Cardinality({v \in values : ~ \E w \in values : w > v /\ w - v <= 2 * Eps})

\* len(set(DBSCAN(eps=10, min_samples=1).fit(values).labels_)).  With
\* min_samples = 1 every sample is a core sample, so the clusters are the
\* connected components of the relation |v - w| <= eps; on a line each
\* component has exactly one largest value, which is what is counted.
ClusterCount(values) ==
    Cardinality({v \in values : ~ \E w \in values : w > v /\ w - v <= Eps})

\* The fallback with the else branch taking num_cols as it is (no max).
FallbackGridNoMax(num_rows, num_cols, coords) ==
    LET span_y == SetMax(ColumnY(coords)) - SetMin(ColumnY(coords))
        span_x == SetMax(ColumnX(coords)) - SetMin(ColumnX(coords))
    IN  IF span_y > span_x
        THEN [rows |-> Max(num_rows, num_cols), cols |-> Max(num_rows, num_cols)]
        ELSE [rows |-> num_cols, cols |-> num_cols]

\* The body of `if num_rows * num_cols != len(coords)`: the square-grid fallback.
FallbackGrid(num_rows, num_cols, coords) ==
    LET span_y == SetMax(ColumnY(coords)) - SetMin(ColumnY(coords))
        span_x == SetMax(ColumnX(coords)) - SetMin(ColumnX(coords))
    IN  IF span_y > span_x
        THEN LET nr == Max(num_rows, num_cols) IN [rows |-> nr, cols |-> nr]
        ELSE LET nc == Max(num_rows, num_cols) IN [rows |-> nc, cols |-> nc]

\* num_rows, num_cols as clustered (before the consistency check)
ClusteredGrid(coords) ==
    IF Len(coords) > 1
    THEN [rows |-> ClusterCount(ColumnY(coords)),
          cols |-> ClusterCount(ColumnX(coords))]
    ELSE [rows |-> 1, cols |-> 1]

\* num_rows, num_cols as returned
InferGrid(coords) ==
    LET g == ClusteredGrid(coords)
    IN  IF g.rows * g.cols # Len(coords)
        THEN FallbackGrid(g.rows, g.cols, coords)
        ELSE g

\* Twice mid_x with integer division of the width (image_shape[1] // 2).
MidX2Floor(shape) == 2 * (shape[2] \div 2)

\* Twice mid_x: mid_x = image_shape[1] / 2 is a true division, so x < mid_x is
\* compared as 2 * x < MidX2.
MidX2(shape) == shape[2]

\* sum(1 for kp in keypoints if kp.pt[0] < mid_x)
RECURSIVE left_dots(_, _)
left_dots(kps, mid2) ==
    IF Len(kps) = 0 THEN 0
    ELSE (IF 2 * Head(kps).pt[1] < mid2 THEN 1 ELSE 0) + left_dots(Tail(kps), mid2)

\* right_dots counting the dots on the midline too (>=).
RECURSIVE right_dots_incl(_, _)
right_dots_incl(kps, mid2) ==
    IF Len(kps) = 0 THEN 0
    ELSE (IF 2 * Head(kps).pt[1] >= mid2 THEN 1 ELSE 0)
         + right_dots_incl(Tail(kps), mid2)

\* sum(1 for kp in keypoints if kp.pt[0] > mid_x)
RECURSIVE right_dots(_, _)
right_dots(kps, mid2) ==
    IF Len(kps) = 0 THEN 0
    ELSE (IF 2 * Head(kps).pt[1] > mid2 THEN 1 ELSE 0) + right_dots(Tail(kps), mid2)

\* The comparison with a strict <.
IsSymmetricStrict(left, right, n) ==
    TolDen * Abs(left - right) < Max(TolDen * TolMin, TolNum * n)

\* abs(left_dots - right_dots) <= max(2, len(keypoints) * 0.1), both sides
\* multiplied by TolDen
IsSymmetric(left, right, n) ==
    TolDen * Abs(left - right) <= Max(TolDen * TolMin, TolNum * n)

\* A result for no dots that is a zero-count summary, not an error.
NoDotsAsSummary == [dot_count |-> 0, contour_count |-> 0,
                    grid |-> [rows |-> 1, cols |-> 1],
                    is_symmetric |-> TRUE, dots |-> <<>>]

\* return {"error": "No dots to analyze."}
NoDotsResult == [error |-> "No dots to analyze."]

analyze_principles(kps, cnts, shape) ==
    IF Falsy(kps) THEN NoDotsResult
    ELSE LET coords == Coords(kps.items)
             mid2 == MidX2(shape)
             left == left_dots(kps.items, mid2)
             right == right_dots(kps.items, mid2)
         IN  [dot_count |-> PyLen(kps),
              contour_count |-> IF IsNone(cnts) THEN 0 ELSE PyLen(cnts),
              grid |-> InferGrid(coords),
              is_symmetric |-> IsSymmetric(left, right, PyLen(kps)),
              dots |-> coords]

IsError(result) == "error" \in DOMAIN result

---------------------------------------------------------------------------
(* kolam_recreator.recreate_kolam *)

\* np.pi as the fraction PiNum / PiDen
PiNum == 355
PiDen == 113

\* circularity > 0.6 as the fraction CircNum / CircDen
CircNum == 6
CircDen == 10

\* 100 < area < 5000
MinArea == 100
MaxArea == 5000

\* cv2.circle(..., 2, ...): the radius of a decoration dot
DotRadius == 2

\* A contour with what OpenCV measures on it: its vertices, cv2.contourArea,
\* cv2.arcLength(c, True) and the spatial moments of cv2.moments.  On a contour
\* m00 is the enclosed area, and m10 / m00, m01 / m00 the centroid.
Contour(points, area, perimeter, cx, cy) ==
    [points |-> points, area |-> area, perimeter |-> perimeter,
     m00 |-> area, m10 |-> area * cx, m01 |-> area * cy]

\* np.zeros with height and width exchanged.
np_zeros_swapped(height, width) ==
    [height |-> width, width |-> height, nonzero |-> {}]

\* np.zeros((height, width, 3), dtype=np.uint8): an image is its height, its
\* width and the set of its non-zero (non-background) pixels <<x, y>>.
np_zeros(height, width) ==
    [height |-> height, width |-> width, nonzero |-> {}]

InCanvas(img, p) ==
    /\ 0 <= p[1] /\ p[1] < img.width
    /\ 0 <= p[2] /\ p[2] < img.height

\* cv2.drawContours(img, contours, -1, white, 2): the stroke of each contour
\* passes through its vertices, which stand for the pixels of the stroke.
drawContours(img, cnts) ==
    [img EXCEPT !.nonzero = @ \cup
        {p \in UNION {{cnts[i].points[j] : j \in 1..Len(cnts[i].points)}
                        : i \in 1..Len(cnts)} : InCanvas(img, p)}]

\* cv2.circle(img, center, 2, white, -1): a filled disc, clipped to the image
circle(img, center) ==
    [img EXCEPT !.nonzero = @ \cup
        {p \in ((center[1] - DotRadius)..(center[1] + DotRadius))
               \X ((center[2] - DotRadius)..(center[2] + DotRadius)) :
            /\ (p[1] - center[1]) * (p[1] - center[1])
               + (p[2] - center[2]) * (p[2] - center[2]) <= DotRadius * DotRadius
            /\ InCanvas(img, p)}]

\* circularity = (4 * np.pi * area) / (perimeter * perimeter); circularity > 0.6
CircularEnough(c) ==
    4 * PiNum * c.area * CircDen > CircNum * PiDen * c.perimeter * c.perimeter

\* The size test with the lower bound included (100 <= area).
DecoratesInclusive(c) ==
    /\ c.perimeter # 0
    /\ CircularEnough(c) /\ MinArea <= c.area /\ c.area < MaxArea
    /\ c.m00 # 0

\* Whether the loop body reaches cv2.circle for contour c
Decorates(c) ==
    /\ c.perimeter # 0
    /\ CircularEnough(c) /\ MinArea < c.area /\ c.area < MaxArea
    /\ c.m00 # 0

\* (cX, cY) = (int(M["m10"] / M["m00"]), int(M["m01"] / M["m00"]))
Centroid(c) == <<c.m10 \div c.m00, c.m01 \div c.m00>>

\* The loop leaving at the first zero-perimeter contour (break for continue).
RECURSIVE DecorateFromBreak(_, _, _)
DecorateFromBreak(acc, cnts, i) ==
    IF i > Len(cnts) THEN acc
    ELSE IF cnts[i].perimeter = 0 THEN acc
    ELSE IF Decorates(cnts[i])
         THEN DecorateFromBreak([img |-> circle(acc.img, Centroid(cnts[i])),
                                 circles |-> Append(acc.circles, Centroid(cnts[i]))],
                                cnts, i + 1)
         ELSE DecorateFromBreak(acc, cnts, i + 1)

\* The loop `for c in contours`, from contour i on: the image and the centres
\* of the decoration dots drawn so far, in drawing order.
RECURSIVE DecorateFrom(_, _, _)
DecorateFrom(acc, cnts, i) ==
    IF i > Len(cnts) THEN acc
    ELSE IF Decorates(cnts[i])
         THEN DecorateFrom([img |-> circle(acc.img, Centroid(cnts[i])),
                            circles |-> Append(acc.circles, Centroid(cnts[i]))],
                           cnts, i + 1)
         ELSE DecorateFrom(acc, cnts, i + 1)

\* recreate_kolam returns img; circles lists the cv2.circle calls it made.
recreate_kolam(cnts, shape) ==
    LET height == shape[1]
        width == shape[2]
        recreated_img == np_zeros(height, width)
    IN  IF IsNone(cnts) \/ PyLen(cnts) = 0
        THEN [img |-> recreated_img, circles |-> <<>>]
        ELSE DecorateFrom([img |-> drawContours(recreated_img, cnts.items),
                           circles |-> <<>>], cnts.items, 1)

---------------------------------------------------------------------------
(* The inputs the functions are applied to *)

MaxDots == 2        \* longest arbitrary keypoint list
MaxGrid == 3        \* most rows and most columns of a generated grid
MaxSide == 17       \* most dots in the left and in the right column
MaxMid == 3         \* most dots in the centre column
MaxContours == 2    \* longest contour list
NReq == 2           \* concurrent requests

\* image shapes (height, width, channels)
Shapes == {<<60, 40, 3>>, <<60, 41, 3>>, <<400, 90, 3>>, <<400, 41, 3>>}

InImage(kps, shape) ==
    \A i \in 1..Len(kps) :
        /\ 0 <= kps[i].pt[1] /\ kps[i].pt[1] < shape[2]
        /\ 0 <= kps[i].pt[2] /\ kps[i].pt[2] < shape[1]

SeqsUpTo(S, n) == UNION {[1..k -> S] : k \in 0..n}

\* arbitrary short lists
DotXs == {5, 15, 20, 26}
DotYs == {5, 15, 26}
ShortLists == SeqsUpTo({KeyPoint(x, y) : x \in DotXs, y \in DotYs}, MaxDots)

\* the R * C points of an evenly spaced R x C grid, row by row
GridKeypoints(R, C, spacing, x0, y0) ==
    [k \in 1..(R * C) |->
        KeyPoint(x0 + ((k - 1) % C) * spacing, y0 + ((k - 1) \div C) * spacing)]

Spacings == {5, 10, 11, 25}
Origins == {<<3, 4>>, <<12, 7>>}
GridLists ==
    {GridKeypoints(R, C, s, o[1], o[2]) :
        R \in 1..MaxGrid, C \in 1..MaxGrid, s \in Spacings, o \in Origins}

\* three columns of dots: l dots left, m dots at the centre, r dots right
ColumnDots(n, x) == [i \in 1..n |-> KeyPoint(x, 12 * (i - 1))]
SidedKeypoints(l, m, r, width) ==
    ColumnDots(l, 3) \o ColumnDots(m, width \div 2) \o ColumnDots(r, width - 10)

SidedLists(width) ==
    {SidedKeypoints(l, m, r, width) :
        l \in 0..MaxSide, m \in 0..MaxMid, r \in 0..MaxSide}

\* contours as OpenCV would measure them
Circle500 == Contour(<<<<30, 17>>, <<43, 30>>, <<30, 43>>, <<17, 30>>>>, 500, 79, 30, 30)
Long500 == Contour(<<<<2, 8>>, <<70, 8>>, <<70, 15>>, <<2, 15>>>>, 500, 145, 36, 11)
Loop500a == Contour(<<<<10, 10>>, <<45, 12>>, <<40, 30>>, <<12, 25>>>>, 500, 102, 27, 19)
Loop500b == Contour(<<<<10, 10>>, <<45, 12>>, <<40, 30>>, <<12, 24>>>>, 500, 103, 27, 19)
Point0 == Contour(<<<<5, 5>>>>, 0, 0, 5, 5)
Line0 == Contour(<<<<5, 5>>, <<25, 5>>>>, 0, 40, 15, 5)
Small100 == Contour(<<<<10, 4>>, <<16, 10>>, <<10, 16>>, <<4, 10>>>>, 100, 36, 10, 10)
Small101 == Contour(<<<<11, 4>>, <<17, 10>>, <<11, 16>>, <<5, 10>>>>, 101, 36, 11, 10)
Big4999 == Contour(<<<<50, 10>>, <<90, 50>>, <<50, 90>>, <<10, 50>>>>, 4999, 251, 50, 50)
Big5000 == Contour(<<<<51, 10>>, <<91, 50>>, <<51, 90>>, <<11, 50>>>>, 5000, 251, 51, 50)

ContourPool == {Circle500, Long500, Loop500a, Loop500b, Point0, Line0,
                Small100, Small101, Big4999, Big5000}

ContourLists == {None} \cup {List(l) : l \in SeqsUpTo(ContourPool, MaxContours)}

CanvasShapes == {<<60, 60, 3>>, <<20, 40, 3>>, <<0, 0, 3>>}

---------------------------------------------------------------------------
(* Specification of analyze_principles applied to one input *)

AnalyzeIdle ==
    /\ keypoints = None /\ contours = None /\ image_shape = <<0, 0, 3>>
    /\ principles = Pending

RecreateIdle ==
    /\ r_contours = None /\ r_shape = <<0, 0, 3>> /\ recreated = Pending

ServerIdle ==
    /\ temp_file = [tag |-> "absent"] /\ reqs = <<>>

InitAnalyze ==
    /\ image_shape \in Shapes
    /\ keypoints \in {None}
          \cup {List(l) : l \in {k \in ShortLists \cup GridLists
                                       \cup SidedLists(image_shape[2]) :
                                   InImage(k, image_shape)}}
    /\ contours \in {None, List(<<>>), List(<<Circle500, Long500>>)}
    /\ principles = Pending
    /\ RecreateIdle /\ ServerIdle

Analyze ==
    /\ principles = Pending
    /\ principles' = analyze_principles(keypoints, contours, image_shape)
    /\ UNCHANGED <<keypoints, contours, image_shape>>
    /\ UNCHANGED <<recreateVars, serverVars>>

NextAnalyze == Analyze

SpecAnalyze == InitAnalyze /\ [][NextAnalyze]_vars

---------------------------------------------------------------------------
(* Specification of recreate_kolam applied to one input *)

InitRecreate ==
    /\ r_contours \in ContourLists
    /\ r_shape \in CanvasShapes
    /\ recreated = Pending
    /\ AnalyzeIdle /\ ServerIdle

Recreate ==
    /\ recreated = Pending
    /\ recreated' = recreate_kolam(r_contours, r_shape)
    /\ UNCHANGED <<r_contours, r_shape>>
    /\ UNCHANGED <<analyzeVars, serverVars>>

NextRecreate == Recreate

SpecRecreate == InitRecreate /\ [][NextRecreate]_vars

---------------------------------------------------------------------------
(* flask_API_server: the /analyze and /recreate handlers.  The development  *)
(* server of app.run serves each request in a thread of its own, so the     *)
(* steps of two handlers interleave; temp_uploaded_image.png is one file.   *)

\* What a request uploads: no 'image' field, bytes cv2.imdecode rejects, or an
\* image.  An image is known by what the detectors find in it.
Missing == [tag |-> "missing"]
Corrupt == [tag |-> "corrupt"]
Image(id) == [tag |-> "image", id |-> id]

ImageIds == {"grid", "blank", "loops"}

\* img.shape of the decoded image
ImageShape(id) ==
    CASE id = "grid" -> <<60, 60, 3>>
      [] id = "blank" -> <<20, 40, 3>>
      [] id = "loops" -> <<60, 90, 3>>

\* the keypoints SimpleBlobDetector finds in the image
ImageDots(id) ==
    CASE id = "grid" -> GridKeypoints(2, 2, 25, 12, 7)
      [] id = "blank" -> <<>>
      [] id = "loops" -> <<KeyPoint(5, 5)>>

\* the contours of area > 50 that findContours finds in the image
ImageContours(id) ==
    CASE id = "grid" -> <<Circle500>>
      [] id = "blank" -> <<>>
      [] id = "loops" -> <<Long500, Small101>>

Uploads == {Missing, Corrupt} \cup {Image(id) : id \in ImageIds}

\* cv2.imread(image_path): the image in the file, or None when the file holds
\* no complete image (it is being written)
imread(file) == IF file.tag = "image" THEN file ELSE None

detect_dots(file) ==
    LET img == imread(file)
    IN  IF IsNone(img) THEN None ELSE List(ImageDots(img.id))

detect_contours(file) ==
    LET img == imread(file)
    IN  IF IsNone(img) THEN None ELSE List(ImageContours(img.id))

NewRequest(kind, upload) ==
    [kind |-> kind, upload |-> upload, pc |-> "start", img |-> None,
     dots |-> Pending, contours |-> Pending, response |-> Pending]

Response(status, body) == [status |-> status, body |-> body]

InitServer ==
    /\ temp_file = [tag |-> "absent"]
    /\ reqs \in [1..NReq -> {NewRequest(k, u) : k \in {"analyze", "recreate"},
                                                u \in Uploads}]
    /\ AnalyzeIdle /\ RecreateIdle

\* From the entry of the handler to the check of the decoded image
Receive(r) ==
    /\ reqs[r].pc = "start"
    /\ reqs' = [reqs EXCEPT ![r] =
          IF @.upload = Missing
          THEN [@ EXCEPT !.pc = "done",
                         !.response = Response(400, [error |-> "No image file provided"])]
          ELSE IF @.upload = Corrupt
          THEN [@ EXCEPT !.pc = "done",
                         !.response = Response(400, [error |-> "Could not decode image."])]
          ELSE [@ EXCEPT !.pc = "imwrite", !.img = reqs[r].upload]]
    /\ UNCHANGED <<temp_file, analyzeVars, recreateVars>>

\* cv2.imwrite(temp_image_path, img) opens the file, which truncates it
ImwriteOpen(r) ==
    /\ reqs[r].pc = "imwrite"
    /\ temp_file' = [tag |-> "partial"]
    /\ reqs' = [reqs EXCEPT ![r].pc = "imwriting"]
    /\ UNCHANGED <<analyzeVars, recreateVars>>

\* cv2.imwrite has written the image and closes the file
ImwriteClose(r) ==
    /\ reqs[r].pc = "imwriting"
    /\ temp_file' = reqs[r].img
    /\ reqs' = [reqs EXCEPT ![r].pc =
          IF reqs[r].kind = "analyze" THEN "detect_dots" ELSE "detect_contours"]
    /\ UNCHANGED <<analyzeVars, recreateVars>>

\* dots, _ = kolam_recognition.detect_dots(temp_image_path)
DetectDots(r) ==
    /\ reqs[r].pc = "detect_dots"
    /\ reqs' = [reqs EXCEPT ![r].dots = detect_dots(temp_file),
                            ![r].pc = "detect_contours"]
    /\ UNCHANGED <<temp_file, analyzeVars, recreateVars>>

\* contours, _ = kolam_recognition.detect_contours(temp_image_path)
DetectContours(r) ==
    /\ reqs[r].pc = "detect_contours"
    /\ reqs' = [reqs EXCEPT ![r].contours = detect_contours(temp_file),
                            ![r].pc = "respond"]
    /\ UNCHANGED <<temp_file, analyzeVars, recreateVars>>

\* principles = analyze_principles(dots, contours, img.shape)
\* return jsonify(principles)
RespondAnalyze(r) ==
    /\ reqs[r].pc = "respond" /\ reqs[r].kind = "analyze"
    /\ reqs' = [reqs EXCEPT ![r].pc = "done",
          ![r].response = Response(200,
              analyze_principles(reqs[r].dots, reqs[r].contours,
                                 ImageShape(reqs[r].img.id)))]
    /\ UNCHANGED <<temp_file, analyzeVars, recreateVars>>

\* recreated_design = recreate_kolam(contours, img.shape)
\* return send_file(PNG of recreated_design)
RespondRecreate(r) ==
    /\ reqs[r].pc = "respond" /\ reqs[r].kind = "recreate"
    /\ reqs' = [reqs EXCEPT ![r].pc = "done",
          ![r].response = Response(200,
              [png |-> recreate_kolam(reqs[r].contours,
                                      ImageShape(reqs[r].img.id)).img])]
    /\ UNCHANGED <<temp_file, analyzeVars, recreateVars>>

NextServer ==
    \/ \E r \in 1..NReq : Receive(r)
    \/ \E r \in 1..NReq : ImwriteOpen(r)
    \/ \E r \in 1..NReq : ImwriteClose(r)
    \/ \E r \in 1..NReq : DetectDots(r)
    \/ \E r \in 1..NReq : DetectContours(r)
    \/ \E r \in 1..NReq : RespondAnalyze(r)
    \/ \E r \in 1..NReq : RespondRecreate(r)

SpecServer == InitServer /\ [][NextServer]_vars

---------------------------------------------------------------------------
(* Properties of analyze_principles, checked under SpecAnalyze *)

Analyzed == principles # Pending
AnalyzedDots == Analyzed /\ ~ IsError(principles)

\* the dots left of, right of and exactly on the midline image_width / 2
LeftOf(kps, width) == {i \in 1..Len(kps) : 2 * kps[i].pt[1] < width}
RightOf(kps, width) == {i \in 1..Len(kps) : 2 * kps[i].pt[1] > width}
OnMidline(kps, width) == {i \in 1..Len(kps) : 2 * kps[i].pt[1] = width}

\* every dot's x replaced by width - x
Mirror(kps, width) ==
    [i \in 1..Len(kps) |-> KeyPoint(width - kps[i].pt[1], kps[i].pt[2])]

\* C1: called with an empty keypoint list or with None, analyze_principles
\* returns exactly {"error": "No dots to analyze."}, whatever the contours and
\* the image shape are.
C1_NoDotsIsError ==
    (Analyzed /\ (keypoints = None \/ keypoints = List(<<>>)))
        => principles = [error |-> "No dots to analyze."]

C1_Witness ==
    /\ Analyzed /\ keypoints = None
    /\ contours = List(<<Circle500, Long500>>)
    /\ IsError(principles)

\* C2 as stated: the keypoints of an evenly spaced R x C grid, of any positive
\* spacing, give dot_count = R * C and grid = {rows: R, cols: C}.
C2_GridAnySpacing ==
    \A R \in 1..MaxGrid, C \in 1..MaxGrid, s \in Spacings, o \in Origins :
        (Analyzed /\ keypoints = List(GridKeypoints(R, C, s, o[1], o[2])))
            => /\ principles.dot_count = R * C
               /\ principles.grid = [rows |-> R, cols |-> C]

\* C2 amended: the keypoints of an evenly spaced R x C grid whose spacing is
\* greater than the clustering radius 10 give dot_count = R * C and
\* grid = {rows: R, cols: C}.
C2_GridSpacedBeyondRadius ==
    \A R \in 1..MaxGrid, C \in 1..MaxGrid, s \in Spacings, o \in Origins :
        (Analyzed /\ s > 10 /\ keypoints = List(GridKeypoints(R, C, s, o[1], o[2])))
            => /\ principles.dot_count = R * C
               /\ principles.grid = [rows |-> R, cols |-> C]

C2_Witness ==
    /\ Analyzed /\ keypoints = List(GridKeypoints(3, 2, 11, 12, 7))
    /\ principles.grid = [rows |-> 3, cols |-> 2]

\* C7: is_symmetric is true iff |left_count - right_count| <=
\* max(2, 0.10 * total_dot_count), left and right being the dots strictly left
\* and strictly right of image_width / 2.
C7_SymmetryRule ==
    AnalyzedDots =>
        LET kps == keypoints.items
            l == Cardinality(LeftOf(kps, image_shape[2]))
            r == Cardinality(RightOf(kps, image_shape[2]))
        IN  principles.is_symmetric
                <=> (10 * Abs(l - r) <= Max(20, Len(kps)))

\* more than 20 dots, a difference of 3: symmetric by the 10% term alone
C7_Witness ==
    /\ AnalyzedDots /\ principles.is_symmetric
    /\ Len(keypoints.items) > 20
    /\ Cardinality(LeftOf(keypoints.items, image_shape[2]))
         - Cardinality(RightOf(keypoints.items, image_shape[2])) = 3

\* C8: mirroring every dot about the vertical centre line (x -> W - x) leaves
\* is_symmetric unchanged.
C8_ReflectionInvariant ==
    AnalyzedDots =>
        principles.is_symmetric =
            analyze_principles(List(Mirror(keypoints.items, image_shape[2])),
                               contours, image_shape).is_symmetric

\* an asymmetric pattern with dots on all three sides of the comparison
C8_Witness ==
    /\ AnalyzedDots /\ ~ principles.is_symmetric
    /\ OnMidline(keypoints.items, image_shape[2]) # {}
    /\ LeftOf(keypoints.items, image_shape[2]) # {}
    /\ RightOf(keypoints.items, image_shape[2]) # {}

\* C9: when clustered rows * clustered cols differs from the number of dots the
\* grid is square, both sides the larger clustered count; otherwise it is the
\* clustered grid unchanged; rows >= 1 and cols >= 1 always.
C9_SquareFallback ==
    AnalyzedDots =>
        LET g == ClusteredGrid(Coords(keypoints.items))
            n == Len(keypoints.items)
        IN  /\ g.rows * g.cols # n =>
                /\ principles.grid.rows = Max(g.rows, g.cols)
                /\ principles.grid.cols = Max(g.rows, g.cols)
            /\ g.rows * g.cols = n => principles.grid = g
            /\ principles.grid.rows >= 1 /\ principles.grid.cols >= 1

\* the fallback taken with fewer clustered columns than rows
C9_Witness ==
    /\ AnalyzedDots
    /\ LET g == ClusteredGrid(Coords(keypoints.items))
       IN  /\ g.rows * g.cols # Len(keypoints.items)
           /\ g.rows > g.cols
           /\ principles.grid = [rows |-> g.rows, cols |-> g.rows]

\* C10 as stated: left_count + right_count = dot_count, dots on the midline
\* included.
C10_LeftRightCoverAll ==
    AnalyzedDots =>
        left_dots(keypoints.items, MidX2(image_shape))
          + right_dots(keypoints.items, MidX2(image_shape)) = principles.dot_count

\* C10 amended: every dot is counted in at most one of left_count and
\* right_count, and a dot exactly on the midline in neither:
\* left_count + right_count + (dots on the midline) = dot_count.
C10_LeftRightMissMidline ==
    AnalyzedDots =>
        left_dots(keypoints.items, MidX2(image_shape))
          + right_dots(keypoints.items, MidX2(image_shape))
          + Cardinality(OnMidline(keypoints.items, image_shape[2]))
        = principles.dot_count

C10_Witness ==
    /\ AnalyzedDots
    /\ Cardinality(OnMidline(keypoints.items, image_shape[2])) = 2
    /\ left_dots(keypoints.items, MidX2(image_shape))
         + right_dots(keypoints.items, MidX2(image_shape))
       = principles.dot_count - 2

---------------------------------------------------------------------------
(* Properties of recreate_kolam, checked under SpecRecreate *)

Recreated == recreated # Pending

\* the decoration rule in the words of the specification
QualifiesForDot(c) ==
    /\ c.perimeter # 0
    /\ 4 * 355 * c.area * 10 > 6 * 113 * c.perimeter * c.perimeter
    /\ 100 < c.area /\ c.area < 5000

ContourItems(v) == IF IsNone(v) THEN <<>> ELSE v.items

\* C5: the number of decoration dots drawn is the number of contours with
\* perimeter # 0, circularity > 0.6 and 100 < area < 5000, each dot at the
\* centroid of its contour; the circle of area 500 alone gets one dot at its
\* centroid, the elongated contour of area 500 none.
C5_DotsPerQualifyingContour ==
    Recreated =>
        LET cs == ContourItems(r_contours)
            q == {i \in 1..Len(cs) : QualifiesForDot(cs[i])}
        IN  /\ Len(recreated.circles) = Cardinality(q)
            /\ {recreated.circles[k] : k \in 1..Len(recreated.circles)}
                 = {<<cs[i].m10 \div cs[i].m00, cs[i].m01 \div cs[i].m00>> : i \in q}
            /\ r_contours = List(<<Circle500>>) => recreated.circles = <<<<30, 30>>>>
            /\ r_contours = List(<<Long500>>) => recreated.circles = <<>>

C5_Witness ==
    /\ Recreated /\ r_contours = List(<<Long500, Circle500>>)
    /\ recreated.circles = <<<<30, 30>>>>

\* C6: with an empty contour list or None, recreate_kolam returns a canvas of
\* the requested height and width with every pixel zero, and draws nothing.
C6_EmptyGivesBackground ==
    (Recreated /\ (r_contours = None \/ r_contours = List(<<>>)))
        => /\ recreated.img.height = r_shape[1]
           /\ recreated.img.width = r_shape[2]
           /\ recreated.img.nonzero = {}
           /\ recreated.circles = <<>>

C6_Witness ==
    /\ Recreated /\ r_contours = None /\ r_shape = <<20, 40, 3>>
    /\ recreated.img = [height |-> 20, width |-> 40, nonzero |-> {}]

\* the contour list with its zero-perimeter contours left out
IsDegenerate(c) == c.perimeter = 0
WithoutDegenerate(cs) == SelectSeq(cs, LAMBDA c : ~ IsDegenerate(c))

\* C11: zero-perimeter contours, wherever they stand in the list, are skipped
\* without ending the loop: the decoration dots drawn, in order, are those
\* drawn for the same list with the zero-perimeter contours left out.
C11_DegenerateSkipped ==
    Recreated =>
        recreated.circles =
            recreate_kolam(List(WithoutDegenerate(ContourItems(r_contours))),
                           r_shape).circles

\* a zero-perimeter contour first, a decorated contour after it
C11_Witness ==
    /\ Recreated /\ r_contours = List(<<Point0, Circle500>>)
    /\ recreated.circles = <<<<30, 30>>>>

---------------------------------------------------------------------------
(* Properties of the request handlers, checked under SpecServer *)

\* the requests upload different things
DistinctUploads ==
    \A r \in 1..NReq, s \in 1..NReq : r # s => reqs[r].upload # reqs[s].upload

\* C3: for any interleaving of concurrent requests that upload different
\* images, the dots and the contours a request has detected are those of the
\* image that same request uploaded, never those of another request's image
\* written to temp_uploaded_image.png.
C3_PipelineIndependent ==
    DistinctUploads =>
        \A r \in 1..NReq :
            LET q == reqs[r]
            IN  /\ q.dots.tag = "list" => q.dots = List(ImageDots(q.img.id))
                /\ q.contours.tag = "list"
                      => q.contours = List(ImageContours(q.img.id))

\* C4: the Analyze endpoint answers an {error: ...} body with a failure status
\* on every failing path, and a success status only with a full body.
C4_ErrorHasFailureStatus ==
    \A r \in 1..NReq :
        (reqs[r].kind = "analyze" /\ reqs[r].pc = "done")
            => (IsError(reqs[r].response.body) <=> reqs[r].response.status >= 400)

=============================================================================
